---- MODULE Spec2Model ----
(***************************************************************************)
(* Model of src/index.js: the Express handlers of the EMI payment backend  *)
(* and the PostgreSQL store they drive through a pg Pool.                  *)
(*                                                                         *)
(* Every `await` of a handler is a suspension point, so every handler is   *)
(* cut into one action per awaited store call; the synchronous code that   *)
(* follows an await (sending the response, the finally block) belongs to   *)
(* the action of that await.  Each store call either succeeds or raises.   *)
(*                                                                         *)
(* The store is PostgreSQL at its default isolation level, READ COMMITTED: *)
(* statements of an open transaction go to the transaction's write set,    *)
(* become visible to every reader at COMMIT, are discarded at ROLLBACK;    *)
(* a plain SELECT takes no lock; UPDATE locks the row until the            *)
(* transaction ends.                                                       *)
(***************************************************************************)
EXTENDS Integers, Sequences, FiniteSets, TLC

\* ----------------------------------------------------------------- bounds
\* Requests are the slots 1..MaxReqs, each used once and in order of arrival;
\* any two of them may be in flight together.
MaxReqs == 2        \* requests the service receives in one run
MaxClock == 2       \* last tick of the server clock
TicksPerDay == 2    \* ticks of the server clock in one calendar date
InitDue == 5        \* emi_due of every provisioned account

Reqs == 1..MaxReqs
Accounts == {"ACC100", "ACC200"}                \* rows of customers
AccountInputs == Accounts \cup {"", "UNKNOWN"}  \* req.body.account_number

\* req.body.amount: absent (undefined, null or ""), a JSON number, or a
\* string that is no number
Missing == [kind |-> "missing", val |-> 0]
Num(n) == [kind |-> "num", val |-> n]
Text == [kind |-> "text", val |-> 0]
AmountInputs == {Missing, Text} \cup {Num(n) : n \in {-1, 0, 1, 2}}

NoPayment == [id |-> 0, customer_account_number |-> "", payment_amount |-> 0,
              status |-> "", payment_date |-> 0]
NoTxn == [open |-> FALSE, ins |-> {}, upd |-> {}]
\* a value of a result row or of the JSON sent: SQL NULL / null, or a number
Null == [null |-> TRUE, val |-> 0]
Value(n) == [null |-> FALSE, val |-> n]
NoBody == [rows |-> <<>>, collected_today |-> Null, pending_total |-> Null,
           payment |-> NoPayment, new_balance |-> 0]

VARIABLES
    pc,              \* r -> where request r's handler is suspended
    op,              \* r -> the route of request r
    account_number,  \* r -> req.body.account_number / req.params.account_number
    amount,          \* r -> req.body.amount
    currentDue,      \* r -> const currentDue
    newPayment,      \* r -> newPayment.rows[0]
    newDue,          \* r -> const newDue
    todayRes,        \* r -> todayRes.rows[0].total
    err,             \* r -> what a store call of r's handler raised
    response,        \* r -> HTTP status sent, 0 while none is sent
    body,            \* r -> JSON sent with a 200 or a 201
    cancelled,       \* r -> the caller abandoned the request while in flight
    customers,       \* committed customers table: account_number -> emi_due
    payments,        \* committed payments table: set of rows
    txn,             \* r -> the transaction on r's client: its write set
    dueWrites,       \* transactions whose UPDATE of emi_due is committed
    checkedOut,      \* requests holding a client of the pool
    nextId,          \* payments.id sequence
    now              \* server clock

reqVars == <<pc, op, account_number, amount, currentDue, newPayment, newDue,
             todayRes, err, response, body, cancelled>>
dbVars == <<customers, payments, txn, dueWrites, nextId>>
vars == <<reqVars, dbVars, checkedOut, now>>

\* ------------------------------------------------------- pure functions
\* JavaScript truthiness of the two body fields (the `!x` tests)
\* mutant: the validation also rejects an amount below zero
Truthy_PositiveOnly(v) == \/ v.kind = "text"
                          \/ v.kind = "num" /\ v.val > 0
\* mutant: the validation tests only that an amount was given
Truthy_ZeroAccepted(v) == v.kind # "missing"
Truthy(v) == \/ v.kind = "text"
             \/ v.kind = "num" /\ v.val # 0
\* mutant: the account_number test is left out of the validation
TruthyStr_NoTest(s) == TRUE
TruthyStr(s) == s # ""

\* parseFloat on a number or numeric string; never reached with Text,
\* whose INSERT raises first
ParseFloat(v) == v.val

\* mutant: the amount is added to the due
ComputeNewDue_Added(cur, amt) == cur + ParseFloat(amt)
ComputeNewDue(cur, amt) == cur - ParseFloat(amt)

\* mutant: the lookup has lost its WHERE clause and finds a row for any account
SelectDue_NoWhere(acct) ==
    <<customers[CHOOSE a \in DOMAIN customers : acct \in DOMAIN customers => a = acct]>>
\* SELECT emi_due FROM customers WHERE account_number = $1
SelectDue(acct) == IF acct \in DOMAIN customers THEN <<customers[acct]>> ELSE <<>>

\* a row is locked by the open transaction that updated it
RowLocked(acct, r) ==
    \E q \in Reqs \ {r} : \E u \in txn[q].upd : u[1] = acct

\* COMMIT: the write set becomes the committed state
CommittedCustomers(t) ==
    [a \in DOMAIN customers |->
        IF \E u \in t.upd : u[1] = a
        THEN (CHOOSE u \in t.upd : u[1] = a)[2]
        ELSE customers[a]]
\* mutant: the committed rows of the account are replaced by the new one
CommittedPayments_Upsert(t) ==
    {p \in payments :
        \A n \in t.ins : n.customer_account_number # p.customer_account_number}
        \cup t.ins
CommittedPayments(t) == payments \cup t.ins

\* payment_date::date, CURRENT_DATE
DateOf(t) == t \div TicksPerDay

\* SUM(col) over a set of rows: NULL over no rows
RECURSIVE SumAmount(_)
SumAmount(rows) ==
    IF rows = {} THEN 0
    ELSE LET p == CHOOSE x \in rows : TRUE IN
         p.payment_amount + SumAmount(rows \ {p})
RECURSIVE SumDue(_)
SumDue(accts) ==
    IF accts = {} THEN 0
    ELSE LET a == CHOOSE x \in accts : TRUE IN
         customers[a] + SumDue(accts \ {a})

\* mutant: the query also sees the rows that open transactions have inserted
SelectCollectedToday_Dirty ==
    LET rows == {p \in payments \cup UNION {txn[q].ins : q \in Reqs} :
                    DateOf(p.payment_date) = DateOf(now)} IN
    IF rows = {} THEN Null ELSE Value(SumAmount(rows))
\* SELECT SUM(payment_amount) FROM payments WHERE payment_date::date = CURRENT_DATE
SelectCollectedToday ==
    LET rows == {p \in payments : DateOf(p.payment_date) = DateOf(now)} IN
    IF rows = {} THEN Null ELSE Value(SumAmount(rows))
\* SELECT SUM(emi_due) FROM customers
SelectPendingTotal ==
    IF DOMAIN customers = {} THEN Null
    ELSE Value(SumDue(DOMAIN customers))
\* mutant: the total is sent as the query returned it
OrZero_AsReturned(total) == total
\* total || 0
OrZero(total) == IF total.null \/ total.val = 0 THEN Value(0) ELSE total

\* the orders in which a query may return a set of rows
RECURSIVE Orders(_)
Orders(rows) ==
    IF rows = {} THEN {<<>>}
    ELSE UNION {{<<x>> \o s : s \in Orders(rows \ {x})} : x \in rows}
\* mutant: ORDER BY payment_date (ascending, the default)
OrderedByDateDesc_Asc(rows) ==
    {s \in Orders(rows) :
        \A i, j \in 1..Len(s) : i < j => s[i].payment_date <= s[j].payment_date}
\* ... ORDER BY payment_date DESC
OrderedByDateDesc(rows) ==
    {s \in Orders(rows) :
        \A i, j \in 1..Len(s) : i < j => s[i].payment_date >= s[j].payment_date}

\* SELECT * FROM customers
SelectCustomers ==
    Orders({[account_number |-> a, emi_due |-> customers[a]] : a \in DOMAIN customers})
\* SELECT * FROM payments ORDER BY payment_date DESC
SelectPayments == OrderedByDateDesc(payments)
\* SELECT * FROM payments WHERE customer_account_number = $1 ORDER BY payment_date DESC
SelectPaymentsFor(acct) ==
    OrderedByDateDesc({p \in payments : p.customer_account_number = acct})

\* no request has arrived, no client is checked out
InitRequests ==
    /\ pc = [r \in Reqs |-> "idle"]
    /\ op = [r \in Reqs |-> "pay"]
    /\ account_number = [r \in Reqs |-> ""]
    /\ amount = [r \in Reqs |-> Missing]
    /\ currentDue = [r \in Reqs |-> 0]
    /\ newPayment = [r \in Reqs |-> NoPayment]
    /\ newDue = [r \in Reqs |-> 0]
    /\ todayRes = [r \in Reqs |-> Null]
    /\ err = [r \in Reqs |-> "none"]
    /\ response = [r \in Reqs |-> 0]
    /\ body = [r \in Reqs |-> NoBody]
    /\ cancelled = [r \in Reqs |-> FALSE]
    /\ txn = [r \in Reqs |-> NoTxn]
    /\ dueWrites = {}
    /\ checkedOut = {}
    /\ now = 0

\* the service starts on freshly provisioned accounts and an empty ledger
Init ==
    /\ InitRequests
    /\ customers = [a \in Accounts |-> InitDue]
    /\ payments = {}
    /\ nextId = 1

\* payments committed before the service started, all on the day before:
\* two instants, two rows at the later one
History ==
    {[id |-> 1, customer_account_number |-> "ACC100", payment_amount |-> 2,
      status |-> "SUCCESS", payment_date |-> 0 - 2],
     [id |-> 2, customer_account_number |-> "ACC200", payment_amount |-> 1,
      status |-> "SUCCESS", payment_date |-> 0 - 1],
     [id |-> 3, customer_account_number |-> "ACC100", payment_amount |-> 1,
      status |-> "SUCCESS", payment_date |-> 0 - 1]}

\* the service starts on a store that is empty (no account provisioned yet),
\* freshly provisioned, or already holds a history of payments
InitHistory ==
    /\ InitRequests
    /\ \/ /\ customers = [a \in {} |-> InitDue]
          /\ payments = {}
       \/ /\ customers = [a \in Accounts |-> InitDue]
          /\ payments = {}
       \/ /\ customers = [a \in Accounts |-> InitDue -
                    SumAmount({p \in History : p.customer_account_number = a})]
          /\ payments = History
    /\ nextId = Cardinality(payments) + 1

\* what a handler leaves alone
Keep(r, newPc) == pc' = [pc EXCEPT ![r] = newPc]
Respond(r, status) == response' = [response EXCEPT ![r] = status]
Release(r) == checkedOut' = checkedOut \ {r}
Raise(r, what) == err' = [err EXCEPT ![r] = what]

\* requests are numbered in their order of arrival
Arrives(r) ==
    /\ pc[r] = "idle"
    /\ \A q \in Reqs : q < r => pc[q] # "idle"

\* ------------------------------------------------ POST /payments
\* lines 49-56: the request arrives; validation; pool.connect() is issued
PostPayments(r) ==
    /\ Arrives(r)
    /\ \E acct \in AccountInputs, amt \in AmountInputs :
        /\ op' = [op EXCEPT ![r] = "pay"]
        /\ account_number' = [account_number EXCEPT ![r] = acct]
        /\ amount' = [amount EXCEPT ![r] = amt]
        /\ IF ~TruthyStr(acct) \/ ~Truthy(amt)
           THEN /\ Respond(r, 400)
                /\ Keep(r, "done")
           ELSE /\ Keep(r, "connect")
                /\ UNCHANGED response
    /\ UNCHANGED <<currentDue, newPayment, newDue, todayRes, err, body,
                   cancelled, dbVars, checkedOut, now>>

\* line 56: await pool.connect(), outside the try block: when it raises,
\* the handler's promise rejects and nothing is sent
PoolConnect(r) ==
    /\ pc[r] = "connect"
    /\ \/ /\ checkedOut' = checkedOut \cup {r}
          /\ Keep(r, "begin")
          /\ UNCHANGED err
       \/ /\ Raise(r, "connect")
          /\ Keep(r, "done")
          /\ UNCHANGED checkedOut
    /\ UNCHANGED <<op, account_number, amount, currentDue, newPayment, newDue,
                   todayRes, response, body, cancelled, dbVars, now>>

\* line 60: await client.query('BEGIN')
Begin(r) ==
    /\ pc[r] = "begin"
    /\ \/ /\ txn' = [txn EXCEPT ![r] = [NoTxn EXCEPT !.open = TRUE]]
          /\ Keep(r, "select")
          /\ UNCHANGED err
       \/ /\ Raise(r, "query")
          /\ Keep(r, "catch")
          /\ UNCHANGED txn
    /\ UNCHANGED <<op, account_number, amount, currentDue, newPayment, newDue,
                   todayRes, response, body, cancelled, customers, payments,
                   dueWrites, nextId, checkedOut, now>>

\* lines 63-69: the account lookup
SelectCustomer(r) ==
    /\ pc[r] = "select"
    /\ \/ /\ LET rows == SelectDue(account_number[r]) IN
               IF Len(rows) = 0
               THEN /\ Keep(r, "rollback404")
                    /\ UNCHANGED currentDue
               ELSE /\ currentDue' = [currentDue EXCEPT ![r] = rows[1]]
                    /\ Keep(r, "insert")
          /\ UNCHANGED err
       \/ /\ Raise(r, "query")
          /\ Keep(r, "catch")
          /\ UNCHANGED currentDue
    /\ UNCHANGED <<op, account_number, amount, newPayment, newDue, todayRes,
                   response, body, cancelled, dbVars, checkedOut, now>>

\* a statement on r's client: into the write set of the open transaction,
\* or committed at once when the client has none open
\* mutant: the INSERT runs outside the transaction (pool.query)
StmtInsert_Autocommit(r, row) ==
    /\ payments' = payments \cup {row}
    /\ UNCHANGED txn
StmtInsert(r, row) ==
    IF txn[r].open
    THEN /\ txn' = [txn EXCEPT ![r].ins = @ \cup {row}]
         /\ UNCHANGED payments
    ELSE /\ payments' = payments \cup {row}
         /\ UNCHANGED txn

\* mutant: the UPDATE has lost its WHERE clause and sets every account's due
StmtUpdate_NoWhere(r, acct, due) ==
    /\ txn' = [txn EXCEPT ![r].upd = {<<a, due>> : a \in DOMAIN customers}]
    /\ UNCHANGED <<customers, dueWrites>>
StmtUpdate(r, acct, due) ==
    IF txn[r].open
    THEN /\ txn' = [txn EXCEPT ![r].upd = {u \in @ : u[1] # acct} \cup {<<acct, due>>}]
         /\ UNCHANGED <<customers, dueWrites>>
    ELSE /\ customers' = [customers EXCEPT ![acct] = due]
         /\ dueWrites' = dueWrites \cup {r}
         /\ UNCHANGED txn

\* ROLLBACK, or the loss of the connection: the write set is discarded
StmtRollback(r) ==
    /\ txn' = [txn EXCEPT ![r] = NoTxn]
    /\ UNCHANGED <<customers, payments, dueWrites>>

\* COMMIT
StmtCommit(r) ==
    /\ customers' = CommittedCustomers(txn[r])
    /\ payments' = CommittedPayments(txn[r])
    /\ dueWrites' = IF txn[r].upd # {} THEN dueWrites \cup {r} ELSE dueWrites
    /\ txn' = [txn EXCEPT ![r] = NoTxn]

\* lines 65-66 and 98-100: ROLLBACK, 404, release
RollbackNotFound(r) ==
    /\ pc[r] = "rollback404"
    /\ \/ /\ StmtRollback(r)
          /\ Respond(r, 404)
          /\ Release(r)
          /\ Keep(r, "done")
          /\ UNCHANGED err
       \/ /\ Raise(r, "query")
          /\ Keep(r, "catch")
          /\ UNCHANGED <<response, checkedOut, customers, payments, txn, dueWrites>>
    /\ UNCHANGED <<op, account_number, amount, currentDue, newPayment, newDue,
                   todayRes, body, cancelled, nextId, now>>

\* lines 72-75: INSERT INTO payments ... RETURNING *; the sequence value is
\* consumed whether or not the transaction commits, payment_date is the
\* column's server-side default; a Text amount is invalid input for the
\* numeric column and raises
InsertPayment(r) ==
    /\ pc[r] = "insert"
    /\ \/ /\ amount[r].kind = "num"
          /\ LET row == [id |-> nextId,
                         customer_account_number |-> account_number[r],
                         payment_amount |-> amount[r].val,
                         status |-> "SUCCESS",
                         payment_date |-> now] IN
               /\ StmtInsert(r, row)
               /\ newPayment' = [newPayment EXCEPT ![r] = row]
          /\ nextId' = nextId + 1
          /\ Keep(r, "update")
          /\ UNCHANGED err
       \/ /\ Raise(r, "query")
          /\ Keep(r, "catch")
          /\ UNCHANGED <<newPayment, nextId, txn, payments>>
    /\ UNCHANGED <<op, account_number, amount, currentDue, newDue, todayRes,
                   response, body, cancelled, customers, dueWrites,
                   checkedOut, now>>

\* lines 79-83: newDue, then UPDATE customers SET emi_due = $1; the UPDATE
\* waits while another open transaction holds the row
UpdateDue(r) ==
    /\ pc[r] = "update"
    /\ newDue' = [newDue EXCEPT ![r] = ComputeNewDue(currentDue[r], amount[r])]
    /\ \/ /\ ~RowLocked(account_number[r], r)
          /\ StmtUpdate(r, account_number[r], newDue'[r])
          /\ Keep(r, "commit")
          /\ UNCHANGED err
       \/ /\ Raise(r, "query")
          /\ Keep(r, "catch")
          /\ UNCHANGED <<txn, customers, dueWrites>>
    /\ UNCHANGED <<op, account_number, amount, currentDue, newPayment, todayRes,
                   response, body, cancelled, payments, nextId, checkedOut, now>>

\* mutant: the balance sent is the one read before the payment
PaymentBody_StaleBalance(r) ==
    [NoBody EXCEPT !.payment = newPayment[r], !.new_balance = currentDue[r]]
\* lines 88-92: { msg, payment: newPayment.rows[0], new_balance: newDue }
PaymentBody(r) ==
    [NoBody EXCEPT !.payment = newPayment[r], !.new_balance = newDue[r]]

\* lines 86-92 and 98-100: COMMIT, 201, release
Commit(r) ==
    /\ pc[r] = "commit"
    /\ \/ /\ StmtCommit(r)
          /\ Respond(r, 201)
          /\ body' = [body EXCEPT ![r] = PaymentBody(r)]
          /\ Release(r)
          /\ Keep(r, "done")
          /\ UNCHANGED err
       \/ /\ Raise(r, "query")
          /\ Keep(r, "catch")
          /\ UNCHANGED <<response, body, checkedOut, customers, payments, txn,
                         dueWrites>>
    /\ UNCHANGED <<op, account_number, amount, currentDue, newPayment, newDue,
                   todayRes, cancelled, nextId, now>>

\* lines 94-100: catch: await ROLLBACK, 500, finally release.  When the
\* ROLLBACK raises too, the catch block throws: the finally block still
\* releases the client, nothing is sent, the handler's promise rejects.
CatchRollback(r) ==
    /\ pc[r] = "catch"
    /\ StmtRollback(r)
    /\ \/ Respond(r, 500)
       \/ UNCHANGED response
    /\ Release(r)
    /\ Keep(r, "done")
    /\ UNCHANGED <<op, account_number, amount, currentDue, newPayment, newDue,
                   todayRes, err, body, cancelled, nextId, now>>

\* ------------------------------------------------ GET /analytics
\* lines 130-132: the request arrives, pool.connect() is issued in the try
GetAnalytics(r) ==
    /\ Arrives(r)
    /\ op' = [op EXCEPT ![r] = "analytics"]
    /\ Keep(r, "a_connect")
    /\ UNCHANGED <<account_number, amount, currentDue, newPayment, newDue,
                   todayRes, err, response, body, cancelled, dbVars,
                   checkedOut, now>>

\* line 132: await pool.connect(); lines 154-157 when it raises
AnalyticsConnect(r) ==
    /\ pc[r] = "a_connect"
    /\ \/ /\ checkedOut' = checkedOut \cup {r}
          /\ Keep(r, "a_today")
          /\ UNCHANGED <<response, err>>
       \/ /\ Raise(r, "connect")
          /\ Respond(r, 500)
          /\ Keep(r, "done")
          /\ UNCHANGED checkedOut
    /\ UNCHANGED <<op, account_number, amount, currentDue, newPayment, newDue,
                   todayRes, body, cancelled, dbVars, now>>

\* line 144: await client.query(todayQuery); lines 154-157 when it raises
AnalyticsToday(r) ==
    /\ pc[r] = "a_today"
    /\ \/ /\ todayRes' = [todayRes EXCEPT ![r] = SelectCollectedToday]
          /\ Keep(r, "a_due")
          /\ UNCHANGED <<response, err>>
       \/ /\ Raise(r, "query")
          /\ Respond(r, 500)
          /\ Keep(r, "done")
          /\ UNCHANGED todayRes
    /\ UNCHANGED <<op, account_number, amount, currentDue, newPayment, newDue,
                   body, cancelled, dbVars, checkedOut, now>>

\* lines 145-152: await client.query(dueQuery), release, the response;
\* lines 154-157 when the query raises
AnalyticsDue(r) ==
    /\ pc[r] = "a_due"
    /\ \/ /\ Release(r)
          /\ Respond(r, 200)
          /\ body' = [body EXCEPT ![r] =
                        [NoBody EXCEPT !.collected_today = OrZero(todayRes[r]),
                                       !.pending_total = OrZero(SelectPendingTotal)]]
          /\ UNCHANGED err
       \/ /\ Raise(r, "query")
          /\ Respond(r, 500)
          /\ UNCHANGED <<body, checkedOut>>
    /\ Keep(r, "done")
    /\ UNCHANGED <<op, account_number, amount, currentDue, newPayment, newDue,
                   todayRes, cancelled, dbVars, now>>

\* ------------------------------------------------ the list routes
\* pool.query acquires a client, runs the statement and releases the client
ListQuery(r, route, acct, results) ==
    /\ Arrives(r)
    /\ op' = [op EXCEPT ![r] = route]
    /\ account_number' = [account_number EXCEPT ![r] = acct]
    /\ \/ /\ \E rows \in results :
                body' = [body EXCEPT ![r] = [NoBody EXCEPT !.rows = rows]]
          /\ Respond(r, 200)
          /\ UNCHANGED err
       \/ /\ Raise(r, "query")
          /\ Respond(r, 500)
          /\ UNCHANGED body
    /\ Keep(r, "done")
    /\ UNCHANGED <<amount, currentDue, newPayment, newDue, todayRes, cancelled,
                   dbVars, checkedOut, now>>

\* lines 35-43: GET /customers
GetCustomers(r) == ListQuery(r, "customers", "", SelectCustomers)

\* lines 105-113: GET /payments
GetPayments(r) == ListQuery(r, "payments", "", SelectPayments)

\* mutant: the route looks the account up first and answers 404 without it
GetPaymentsFor_NeedsAccount(r) ==
    \E acct \in AccountInputs \ {""} :
        IF acct \in DOMAIN customers
        THEN ListQuery(r, "paymentsFor", acct, SelectPaymentsFor(acct))
        ELSE /\ Arrives(r)
             /\ op' = [op EXCEPT ![r] = "paymentsFor"]
             /\ account_number' = [account_number EXCEPT ![r] = acct]
             /\ Respond(r, 404)
             /\ Keep(r, "done")
             /\ UNCHANGED <<amount, currentDue, newPayment, newDue, todayRes,
                            err, body, cancelled, dbVars, checkedOut, now>>
\* lines 115-127: GET /payments/:account_number
GetPaymentsFor(r) ==
    \E acct \in AccountInputs \ {""} :
        ListQuery(r, "paymentsFor", acct, SelectPaymentsFor(acct))

\* ------------------------------------------------ the environment
\* the caller abandons a POST /payments in flight (every suspension point of
\* the handler is before its COMMIT returns); the handler registers no
\* listener for it and goes on
Cancel(r) ==
    /\ op[r] = "pay"
    /\ pc[r] \notin {"idle", "done"}
    /\ ~cancelled[r]
    /\ cancelled' = [cancelled EXCEPT ![r] = TRUE]
    /\ UNCHANGED <<pc, op, account_number, amount, currentDue, newPayment,
                   newDue, todayRes, err, response, body, dbVars, checkedOut, now>>

Tick ==
    /\ now < MaxClock
    /\ now' = now + 1
    /\ UNCHANGED <<reqVars, dbVars, checkedOut>>

Next ==
    \/ \E r \in Reqs : PostPayments(r)
    \/ \E r \in Reqs : PoolConnect(r)
    \/ \E r \in Reqs : Begin(r)
    \/ \E r \in Reqs : SelectCustomer(r)
    \/ \E r \in Reqs : RollbackNotFound(r)
    \/ \E r \in Reqs : InsertPayment(r)
    \/ \E r \in Reqs : UpdateDue(r)
    \/ \E r \in Reqs : Commit(r)
    \/ \E r \in Reqs : CatchRollback(r)
    \/ \E r \in Reqs : GetAnalytics(r)
    \/ \E r \in Reqs : AnalyticsConnect(r)
    \/ \E r \in Reqs : AnalyticsToday(r)
    \/ \E r \in Reqs : AnalyticsDue(r)
    \/ \E r \in Reqs : GetCustomers(r)
    \/ \E r \in Reqs : GetPayments(r)
    \/ \E r \in Reqs : GetPaymentsFor(r)
    \/ \E r \in Reqs : Cancel(r)
    \/ Tick

Spec == Init /\ [][Next]_vars

\* the same service started on any of the stores of InitHistory
SpecHistory == InitHistory /\ [][Next]_vars
\* ================================================================ claims
IsPay(r) == pc[r] # "idle" /\ op[r] = "pay"
Quiescent == \A r \in Reqs : pc[r] \in {"idle", "done"}
Validated(r) == IsPay(r) /\ account_number[r] # "" /\ amount[r].kind # "missing"
                         /\ amount[r] # Num(0)
Succeeded(a) == {r \in Reqs : IsPay(r) /\ response[r] = 201 /\ account_number[r] = a}
RECURSIVE SumPaid(_)
SumPaid(S) ==
    IF S = {} THEN 0
    ELSE LET r == CHOOSE x \in S : TRUE IN amount[r].val + SumPaid(S \ {r})

\* C1 (as claimed; the code violates it): once every POST /payments has
\* finished, each account's emi_due is its initial due minus the sum of the
\* amounts of the calls on it that returned 201, whatever the interleaving
\* of their store accesses.
C1_NoLostUpdate ==
    Quiescent => \A a \in Accounts : customers[a] = InitDue - SumPaid(Succeeded(a))

\* C2: a POST /payments that answers 201 has, by the step that sends it,
\* made its payment row visible and set the account's emi_due to the due it
\* read before paying minus the amount; the row is in every later payment
\* history of the account; a call that answered 400, 404 or 500 has no row
\* in the ledger and has written no emi_due.
C2_Atomicity ==
    /\ [][\A r \in Reqs :
            response[r] = 0 /\ response'[r] = 201 =>
                /\ newPayment[r] \in payments'
                /\ customers'[account_number[r]] = currentDue[r] - amount[r].val]_vars
    /\ [](\A r \in Reqs :
            IsPay(r) /\ response[r] = 201 =>
                \A s \in SelectPaymentsFor(account_number[r]) :
                    \E i \in 1..Len(s) : s[i] = newPayment[r])
    /\ [](\A r \in Reqs :
            IsPay(r) /\ response[r] \in {400, 404, 500} =>
                /\ newPayment[r] \notin payments
                /\ r \notin dueWrites)
\* one call has answered 201, another has failed after its INSERT
C2_Witness ==
    \E r, q \in Reqs :
        /\ IsPay(r) /\ response[r] = 201 /\ newPayment[r] \in payments
        /\ IsPay(q) /\ response[q] = 500 /\ newPayment[q] # NoPayment

\* C3 (as claimed; the code violates it): in every committed state each
\* account's emi_due is its initial due minus the sum of payment_amount over
\* the committed payments that reference it.
C3_RunningTotal ==
    \A a \in Accounts :
        customers[a] =
            InitDue - SumAmount({p \in payments : p.customer_account_number = a})

\* C4: in every committed state, which is all any reader sees, the payment
\* row of a call is visible exactly when the emi_due update of the same call
\* is.
C4_VisibleTogether ==
    \A r \in Reqs : newPayment[r] \in payments <=> r \in dueWrites
\* one call is committed while another holds an INSERT that is not visible
C4_Witness ==
    \E r, q \in Reqs :
        /\ newPayment[r] \in payments /\ r \in dueWrites
        /\ txn[q].ins # {} /\ txn[q].upd = {} /\ newPayment[q] \notin payments

\* C5: a validated POST /payments for an account that is not in customers
\* never inserts or updates anything, ends with its transaction closed, and
\* answers 404 unless a store call raised; every committed payment
\* references an account of customers.
C5_UnknownAccount ==
    /\ \A r \in Reqs :
        Validated(r) /\ account_number[r] \notin DOMAIN customers =>
            /\ newPayment[r] = NoPayment
            /\ txn[r].ins = {} /\ txn[r].upd = {}
            /\ r \notin dueWrites
            /\ pc[r] = "done" => /\ ~txn[r].open
                                 /\ err[r] = "none" => response[r] = 404
    /\ \A p \in payments : p.customer_account_number \in DOMAIN customers
C5_Witness ==
    \E r \in Reqs :
        /\ IsPay(r) /\ account_number[r] = "UNKNOWN"
        /\ pc[r] = "done" /\ response[r] = 404

\* C6: a POST /payments whose account_number is empty or whose amount is
\* missing answers 400 at once: it never holds a client, never has a
\* transaction open, inserts no row and writes no emi_due.
C6_ValidationFirst ==
    \A r \in Reqs :
        IsPay(r) /\ (account_number[r] = "" \/ amount[r].kind = "missing") =>
            /\ pc[r] = "done" /\ response[r] = 400 /\ err[r] = "none"
            /\ r \notin checkedOut
            /\ txn[r] = NoTxn
            /\ newPayment[r] = NoPayment
            /\ r \notin dueWrites
C6_Witness ==
    \E r, q \in Reqs :
        /\ IsPay(r) /\ account_number[r] = "" /\ amount[r] = Num(1) /\ response[r] = 400
        /\ IsPay(q) /\ account_number[q] = "ACC100" /\ amount[q] = Missing
                    /\ response[q] = 400

\* C7 (as claimed; the code violates it): a POST /payments one of whose
\* statements (BEGIN, lookup, INSERT, UPDATE, COMMIT) raised ends with its
\* transaction rolled back, 500 sent, and nothing of it in the stores.
C7_RollbackThenStorageError ==
    \A r \in Reqs :
        IsPay(r) /\ err[r] = "query" /\ pc[r] = "done" =>
            /\ response[r] = 500
            /\ ~txn[r].open
            /\ newPayment[r] \notin payments
            /\ r \notin dueWrites

\* C8 (as claimed; the code violates it): when every request has finished,
\* no client of the pool is checked out.
C8_ConnectionsReleased == Quiescent => checkedOut = {}

\* C9 (as claimed; the code violates it): a request whose handler has
\* finished was sent a response, and when a store call raised the response
\* is the 500.
C9_EveryFailureSurfaced ==
    \A r \in Reqs :
        pc[r] = "done" => /\ response[r] # 0
                          /\ err[r] # "none" => response[r] = 500

\* C10 (as claimed; the code violates it): a POST /payments that its caller
\* abandoned before the COMMIT returned leaves no payment row and no
\* emi_due change for any reader, and holds no client once it has ended.
C10_CancelledLeavesNothing ==
    \A r \in Reqs :
        cancelled[r] => /\ newPayment[r] \notin payments
                        /\ r \notin dueWrites
                        /\ pc[r] = "done" => r \notin checkedOut
\* C11: GET /analytics whose queries did not raise answers 200 with two
\* numbers, never null: today's SUM is NULL when no committed payment is
\* dated today and is then sent as 0, and the SUM of the dues over no
\* account is sent as 0.
C11_AnalyticsZeroCase ==
    [][\A r \in Reqs :
        /\ pc[r] = "a_today" /\ pc'[r] = "a_due"
              /\ (\A p \in payments : DateOf(p.payment_date) # DateOf(now))
           => todayRes'[r] = Null
        /\ pc[r] = "a_due" /\ pc'[r] = "done" /\ err'[r] = "none"
           => /\ response'[r] = 200
              /\ ~body'[r].collected_today.null
              /\ ~body'[r].pending_total.null
              /\ todayRes[r].null => body'[r].collected_today = Value(0)
              /\ DOMAIN customers = {} => body'[r].pending_total = Value(0)]_vars
\* analytics has answered on a store with no account and no payment
C11_Witness ==
    \E r \in Reqs :
        /\ op[r] = "analytics" /\ response[r] = 200
        /\ DOMAIN customers = {} /\ payments = {}
        /\ body[r].collected_today = Value(0) /\ body[r].pending_total = Value(0)
\* C12: what GET /analytics sends is computed from committed rows only:
\* today's total is the sum of payment_amount over the committed payments
\* dated today in the state where todayQuery runs, the pending total is the
\* sum of emi_due over the committed customers in the state where dueQuery
\* runs (both states lie within the call); rows and dues in the write set of
\* an open transaction are never counted.
CommittedToday == {p \in payments : DateOf(p.payment_date) = DateOf(now)}
RECURSIVE CommittedDueTotal(_)
CommittedDueTotal(accts) ==
    IF accts = {} THEN 0
    ELSE LET a == CHOOSE x \in accts : TRUE IN
         customers[a] + CommittedDueTotal(accts \ {a})
C12_AnalyticsReadsCommitted ==
    [][\A r \in Reqs :
        /\ pc[r] = "a_today" /\ pc'[r] = "a_due"
           => /\ todayRes'[r].null = (CommittedToday = {})
              /\ todayRes'[r].val = SumAmount(CommittedToday)
        /\ pc[r] = "a_due" /\ response'[r] = 200
           => /\ body'[r].collected_today.val = todayRes[r].val
              /\ body'[r].pending_total.val = CommittedDueTotal(DOMAIN customers)]_vars
\* analytics has run todayQuery and counted nothing while a transaction holds
\* an uncommitted payment dated today and an uncommitted emi_due
C12_Witness ==
    \E r, q \in Reqs :
        /\ op[r] = "analytics" /\ pc[r] = "a_due" /\ todayRes[r] = Null
        /\ pc[q] = "commit" /\ txn[q].upd # {}
        /\ \E p \in txn[q].ins : DateOf(p.payment_date) = DateOf(now)
\* C13: no step removes or alters a committed payment row (same id, account,
\* amount, status and date for ever), no two committed rows share an id, and
\* no step removes an account.
C13_LedgerImmutable ==
    /\ [][/\ payments \subseteq payments'
          /\ DOMAIN customers \subseteq DOMAIN customers']_vars
    /\ [](\A p, q \in payments : p.id = q.id => p = q)
\* a payment was committed on an account that already had committed payments
C13_Witness ==
    \E p, q \in payments :
        /\ p \in History /\ q \notin History
        /\ p.customer_account_number = q.customer_account_number
\* C14: GET /payments and GET /payments/:account_number that answer 200 send
\* their rows newest first (payment_date never increases along the list);
\* the rows sent are, each once, exactly the committed payments at the time
\* of the query, for the second route exactly those whose
\* customer_account_number is the argument.
RowsOf(s) == {s[i] : i \in 1..Len(s)}
C14_HistoryOrdered ==
    /\ [](\A r \in Reqs :
            pc[r] = "done" /\ op[r] \in {"payments", "paymentsFor"}
                           /\ response[r] = 200 =>
                \A i, j \in 1..Len(body[r].rows) :
                    i < j => body[r].rows[i].payment_date
                                >= body[r].rows[j].payment_date)
    /\ [][\A r \in Reqs :
            pc[r] = "idle" /\ response'[r] = 200 =>
                /\ op'[r] = "payments" =>
                      /\ RowsOf(body'[r].rows) = payments
                      /\ Len(body'[r].rows) = Cardinality(payments)
                /\ op'[r] = "paymentsFor" =>
                      LET mine == {p \in payments :
                            p.customer_account_number = account_number'[r]} IN
                      /\ RowsOf(body'[r].rows) = mine
                      /\ Len(body'[r].rows) = Cardinality(mine)]_vars
\* the whole ledger was listed: a payment just made first, then older rows,
\* two of them of the same date
C14_Witness ==
    \E r, q \in Reqs :
        /\ op[r] = "payments" /\ response[r] = 200 /\ Len(body[r].rows) >= 4
        /\ body[r].rows[1].payment_date > body[r].rows[2].payment_date
        /\ body[r].rows[2].payment_date = body[r].rows[3].payment_date
        /\ op[q] = "pay" /\ response[q] = 201 /\ body[r].rows[1] = newPayment[q]
\* C15: GET /payments/:account_number whose query did not raise answers 200
\* with the empty list when no committed payment references the account,
\* whether the account is in customers or not.
C15_EmptyHistory ==
    [][\A r \in Reqs :
        /\ pc[r] = "idle" /\ pc'[r] = "done" /\ op'[r] = "paymentsFor"
        /\ err'[r] = "none"
        /\ \A p \in payments : p.customer_account_number # account_number'[r]
        => /\ response'[r] = 200
           /\ body'[r].rows = <<>>]_vars
\* the empty history of an unknown account and of an account without payments
C15_Witness ==
    \E r, q \in Reqs :
        /\ op[r] = "paymentsFor" /\ account_number[r] = "UNKNOWN"
        /\ response[r] = 200 /\ body[r].rows = <<>>
        /\ op[q] = "paymentsFor" /\ account_number[q] \in DOMAIN customers
        /\ response[q] = 200 /\ body[q].rows = <<>>
\* C16: the new_balance sent with a 201 is the emi_due stored for the account
\* in the state right after the call's COMMIT, and is the due the call read
\* in its lookup minus the amount; it may be negative and is stored as such.
C16_ReturnedBalance ==
    [][\A r \in Reqs :
        response[r] = 0 /\ response'[r] = 201 =>
            /\ body'[r].new_balance = customers'[account_number[r]]
            /\ body'[r].new_balance = currentDue[r] - amount[r].val]_vars
\* an overpayment: the balance returned and stored is negative
C16_Witness ==
    \E r \in Reqs :
        /\ IsPay(r) /\ response[r] = 201
        /\ body[r].new_balance < 0
        /\ customers[account_number[r]] = body[r].new_balance
\* C17: a POST /payments on an existing account with an amount below zero is
\* not rejected: unless a store call raises it answers 201, its payment row
\* is committed with that negative payment_amount and status SUCCESS, and
\* its COMMIT stores currentDue - amount, a due above the one it read.
C17_NegativeAccepted ==
    /\ [](\A r \in Reqs :
            IsPay(r) /\ amount[r].kind = "num" /\ amount[r].val < 0
                     /\ account_number[r] \in DOMAIN customers =>
                /\ response[r] \notin {400, 404}
                /\ pc[r] = "done" /\ err[r] = "none" =>
                      /\ response[r] = 201
                      /\ newPayment[r] \in payments
                      /\ newPayment[r].payment_amount = amount[r].val
                      /\ newPayment[r].status = "SUCCESS")
    /\ [][\A r \in Reqs :
            response[r] = 0 /\ response'[r] = 201 /\ amount[r].val < 0 =>
                /\ customers'[account_number[r]] = currentDue[r] - amount[r].val
                /\ customers'[account_number[r]] > currentDue[r]]_vars
\* a negative payment is committed and the due stands above the initial one
C17_Witness ==
    \E r \in Reqs :
        /\ IsPay(r) /\ amount[r] = Num(-1) /\ response[r] = 201
        /\ newPayment[r] \in payments /\ newPayment[r].payment_amount = -1
        /\ customers[account_number[r]] > InitDue
\* C18: a step of a POST /payments for account A, whatever its outcome,
\* changes the emi_due of no account but A and commits no payment row that
\* references another account; hence an account on which exactly one call
\* has succeeded holds its initial due minus that call's amount, whatever
\* the calls on other accounts did and in whichever order they committed.
C18_AccountIsolation ==
    /\ [][\A r \in Reqs :
            pc'[r] # pc[r] /\ op'[r] = "pay" =>
                /\ \A b \in DOMAIN customers \ {account_number'[r]} :
                        customers'[b] = customers[b]
                /\ \A p \in payments' \ payments :
                        p.customer_account_number = account_number'[r]]_vars
    /\ [](\A r \in Reqs :
            /\ IsPay(r) /\ response[r] = 201
            /\ \A q \in Reqs \ {r} :
                    ~(IsPay(q) /\ response[q] = 201
                               /\ account_number[q] = account_number[r])
            => customers[account_number[r]] = InitDue - amount[r].val)
\* two calls on different accounts have succeeded, the one that arrived
\* second having inserted first
C18_Witness ==
    \E r, q \in Reqs :
        /\ r < q /\ IsPay(r) /\ IsPay(q) /\ response[r] = 201 /\ response[q] = 201
        /\ account_number[r] # account_number[q]
        /\ newPayment[q].id < newPayment[r].id
        /\ customers[account_number[r]] = InitDue - amount[r].val
        /\ customers[account_number[q]] = InitDue - amount[q].val
\* C19: a POST /payments whose amount is the number 0 answers 400 at once,
\* as for a missing amount: it never holds a client, never has a transaction
\* open, inserts no row and writes no emi_due.
C19_ZeroAmountRejected ==
    \A r \in Reqs :
        IsPay(r) /\ amount[r] = Num(0) =>
            /\ pc[r] = "done" /\ response[r] = 400 /\ err[r] = "none"
            /\ r \notin checkedOut
            /\ txn[r] = NoTxn
            /\ newPayment[r] = NoPayment
            /\ r \notin dueWrites
\* amount 0 on an existing account was answered 400 and nothing was stored
C19_Witness ==
    \E r \in Reqs :
        /\ IsPay(r) /\ account_number[r] = "ACC100" /\ amount[r] = Num(0)
        /\ response[r] = 400
        /\ Quiescent /\ payments = {} /\ customers["ACC100"] = InitDue
====
